---- MODULE Spec2Model ----
(***************************************************************************)
(* sigma-telemetry: the concurrent telemetry core (src/src/lib.rs).        *)
(*                                                                         *)
(* State: the MetricsCollector's three mutex-guarded maps, the             *)
(* SigmaTelemetry span buffer (active_spans), the poison flag and the      *)
(* holder of each std::sync::Mutex, and per thread the SpanGuard it owns   *)
(* and its position inside record_span / snapshot.                         *)
(*                                                                         *)
(* Every `lock().unwrap()` of the source panics when the mutex is          *)
(* poisoned, and a panic raised while a MutexGuard is alive poisons that   *)
(* mutex; both are modelled.                                               *)
(***************************************************************************)
EXTENDS Integers, Sequences, FiniteSets, TLC

\* ------------------------------------------------------------------ bounds
\* Spans started over a run.
MaxSpans == 2
\* Writes made by callers over a run: the collector's increment,
\* increment_by, record_histogram and set_gauge, and a guard's set_attribute.
MaxCalls == 2
\* Stand-in for u64::MAX: counters are kept modulo MaxU64 + 1.
MaxU64 == 3

Threads == {"t1", "t2"}
NoThread == "none"

\* ------------------------------------------------------------- data model
\* Option<T> is a sequence of length at most one.
None == <<>>
Some(x) == <<x>>

\* f64 samples are integers; NaN is the one value partial_cmp cannot order.
NaN == -1
IsNaN(v) == v = NaN

\* SpanStatus (lib.rs 74-78)
StatusOk == [tag |-> "Ok", msg |-> ""]
StatusUnset == [tag |-> "Unset", msg |-> ""]
StatusError(msg) == [tag |-> "Error", msg |-> msg]

\* SpanOperation (lib.rs 40-52); label is used by Custom only.
Op(kind) == [kind |-> kind, label |-> ""]
Custom(label) == [kind |-> "Custom", label |-> label]
WellKnownKinds ==
    {"ModelLoad", "Inference", "TokenGeneration", "KvCacheOp", "SpeculativeDraft",
     "SpeculativeVerify", "EmbeddingEncode", "AgentExecute", "VaultStore",
     "VaultRetrieve"}

\* A Display that writes the custom label without the separating dot and
\* spells one well-known name differently. The source is the table below.
OperationStringSlipped(op) ==
    CASE op.kind = "ModelLoad" -> "model.load"
      [] op.kind = "Inference" -> "inference"
      [] op.kind = "TokenGeneration" -> "token.generation"
      [] op.kind = "KvCacheOp" -> "kvcache.op"
      [] op.kind = "SpeculativeDraft" -> "speculative.draft"
      [] op.kind = "SpeculativeVerify" -> "speculative.verify"
      [] op.kind = "EmbeddingEncode" -> "embedding.encode"
      [] op.kind = "AgentExecute" -> "agent.execute"
      [] op.kind = "VaultStore" -> "vault.store"
      [] op.kind = "VaultRetrieve" -> "vault.retrieve"
      [] op.kind = "Custom" -> "custom" \o op.label

\* impl Display for SpanOperation (lib.rs 54-70)
OperationString(op) ==
    CASE op.kind = "ModelLoad" -> "model.load"
      [] op.kind = "Inference" -> "inference"
      [] op.kind = "TokenGeneration" -> "token.generation"
      [] op.kind = "KvCacheOp" -> "kv_cache.op"
      [] op.kind = "SpeculativeDraft" -> "speculative.draft"
      [] op.kind = "SpeculativeVerify" -> "speculative.verify"
      [] op.kind = "EmbeddingEncode" -> "embedding.encode"
      [] op.kind = "AgentExecute" -> "agent.execute"
      [] op.kind = "VaultStore" -> "vault.store"
      [] op.kind = "VaultRetrieve" -> "vault.retrieve"
      [] op.kind = "Custom" -> "custom." \o op.label

\* format!("span.{}.duration_ms", span.operation) (lib.rs 208)
DurationKey(op) == "span." \o OperationString(op) \o ".duration_ms"

\* ------------------------------------------------------- inputs enumerated
SpanOps == {Op("Inference")}
SpanNames == {"op"}
ErrorMsgs == {"decode failure"}
\* self.start.elapsed() in milliseconds: any non-negative value.
ElapsedMs == {5}
AttrPairs == {<<"model", "bitnet">>}
ServiceName == "ryzanstein"
\* TelemetryConfig::default(), the fields the exporter reads (config.rs 24-37)
DefaultConfig == [service_name |-> ServiceName, otlp_endpoint |-> "http://localhost:4317"]

SpansTotal == "spans.total"
SpansErrors == "spans.errors"
CounterNames == {"requests"}
Amounts == {MaxU64}
GaugeNames == {"mem"}
GaugeValues == {42}
CallerHistNames == {"latency"}
HistNames == CallerHistNames \cup {DurationKey(op) : op \in SpanOps}
Samples == {10, NaN}

Mutexes == {"active_spans", "counters", "gauges", "histograms"}

EmptyMap == [n \in {} |-> 0]
Put(m, k, v) == [n \in DOMAIN m \cup {k} |-> IF n = k THEN v ELSE m[n]]

VARIABLES
    counters,        \* MetricsCollector.counters: name -> u64
    histograms,      \* MetricsCollector.histograms: name -> Vec<f64>
    gauges,          \* MetricsCollector.gauges: name -> f64
    active_spans,    \* SigmaTelemetry.active_spans: Vec<SpanRecord>
    poisoned,        \* per mutex: a holder panicked
    holder,          \* per mutex: the thread holding it, or NoThread
    overflow_checks, \* build profile: does u64 `+=` panic on overflow ("on"/"off");
                     \* "unsettled" until the first overflow consults it
    guard,           \* per thread: Option<SpanGuard.record>
    pc,              \* per thread: position in record_span / snapshot
    ret,             \* what the last step ended: a panic, or a snapshot returned
    call,            \* per thread: the finalizing call it is inside, or "none"
    spanLog,         \* history: per span id, "active" or "ended"
    calls,           \* history: writes made by callers
    exporter,        \* Exporter: its format and its config
    spans,           \* the slice export is called on
    network          \* HTTP requests sent so far

\* The exporter and what it works on: no method of the telemetry core
\* touches them.
exportVars == <<exporter, spans, network>>

vars == <<counters, histograms, gauges, active_spans, poisoned, holder,
          overflow_checks, guard, pc, ret, call, spanLog, calls, exportVars>>

\* ------------------------------------------------ MetricsCollector, pure
\* The bodies of the collector's methods as functions of the locked map.
\* Each yields [panic, map]: whether the body panics, and the map it leaves.

\* get_counter: counters.get(name).copied().unwrap_or(0) (lib.rs 120-122)
get_counter(m, name) == IF name \in DOMAIN m THEN m[name] ELSE 0

\* u64 `+=` (lib.rs 104): panics on overflow when the build checks overflow,
\* wraps otherwise.
AddU64Wrapping(a, b) == (a + b) % (MaxU64 + 1)
AddU64(a, b) == AddU64Wrapping(a, b)
AddU64Overflows(a, b) == a + b > MaxU64

\* An increment_by that adds to a counter only if the name is already there
\* (get_mut in place of entry().or_insert(0)), so that it never creates one.
increment_by_existing(m, name, value, checks) ==
    IF name \notin DOMAIN m THEN [panic |-> FALSE, map |-> m]
    ELSE IF AddU64Overflows(m[name], value) /\ checks = "on"
         THEN [panic |-> TRUE, map |-> m]
         ELSE [panic |-> FALSE, map |-> Put(m, name, AddU64(m[name], value))]

\* *counters.entry(name).or_insert(0) += value (lib.rs 102-105), in a build
\* whose overflow checks are `checks` ("on" or "off").
increment_by(m, name, value, checks) ==
    LET old == get_counter(m, name)
    IN  IF AddU64Overflows(old, value) /\ checks = "on"
        THEN [panic |-> TRUE, map |-> Put(m, name, old)]
        ELSE [panic |-> FALSE, map |-> Put(m, name, AddU64(old, value))]

\* The profiles the build may have, as far as the run has shown: both until
\* an addition overflows, the one that was seen from then on.
Profiles(m, name, value) ==
    IF overflow_checks # "unsettled" THEN {overflow_checks}
    ELSE IF AddU64Overflows(get_counter(m, name), value) THEN {"on", "off"}
    ELSE {"unsettled"}

\* A record_histogram that pushes only onto a histogram that is already
\* there (get_mut in place of entry().or_default()).
record_histogram_existing(m, name, value) ==
    IF name \in DOMAIN m THEN Put(m, name, Append(m[name], value)) ELSE m

\* histograms.entry(name).or_default().push(value) (lib.rs 108-111)
record_histogram(m, name, value) ==
    Put(m, name, Append(IF name \in DOMAIN m THEN m[name] ELSE <<>>, value))

\* A set_gauge that keeps the first value of a name (entry().or_insert). The
\* source overwrites.
set_gauge_first(m, name, value) == IF name \in DOMAIN m THEN m ELSE Put(m, name, value)

\* gauges.insert(name, value) (lib.rs 114-117)
set_gauge(m, name, value) == Put(m, name, value)

\* gauges.get(name).copied() (lib.rs 125-127)
get_gauge(m, name) == IF name \in DOMAIN m THEN Some(m[name]) ELSE None

\* a.partial_cmp(b): None when either side is NaN (lib.rs 140)
partial_cmp(a, b) ==
    IF IsNaN(a) \/ IsNaN(b) THEN None
    ELSE Some(IF a < b THEN "Less" ELSE IF a = b THEN "Equal" ELSE "Greater")

\* sorted.sort_by(|a, b| a.partial_cmp(b).unwrap()): a slice shorter than two
\* is never compared; otherwise every element is compared at least once, so
\* the unwrap panics as soon as one element is NaN.
SortPanics(values) ==
    /\ Len(values) >= 2
    /\ \E i \in 1..Len(values) : \E j \in 1..Len(values) :
          i # j /\ partial_cmp(values[i], values[j]) = None

RECURSIVE InsertSorted(_, _)
InsertSorted(sorted, v) ==
    IF sorted = <<>> THEN <<v>>
    ELSE IF partial_cmp(v, Head(sorted)) = Some("Less")
         THEN <<v>> \o sorted
         ELSE <<Head(sorted)>> \o InsertSorted(Tail(sorted), v)

RECURSIVE SortAscending(_)
SortAscending(values) ==
    IF values = <<>> THEN <<>>
    ELSE InsertSorted(SortAscending(SubSeq(values, 1, Len(values) - 1)),
                      values[Len(values)])

\* f64 addition: NaN absorbs.
AddF64(a, b) == IF IsNaN(a) \/ IsNaN(b) THEN NaN ELSE a + b

\* values.iter().sum() (lib.rs 136)
RECURSIVE SumSeq(_)
SumSeq(values) ==
    IF values = <<>> THEN 0 ELSE AddF64(Head(values), SumSeq(Tail(values)))

\* (count as f64 * 0.99) as usize (lib.rs 142)
P99Index(count) == (count * 99) \div 100
\* count / 2 (lib.rs 141)
P50Index(count) == count \div 2

\* get_histogram_stats (lib.rs 130-144); indices are 0-based in the source.
\* The mean sum / count is kept as the pair it is computed from.
get_histogram_stats(m, name) ==
    IF name \notin DOMAIN m THEN [panic |-> FALSE, value |-> None]
    ELSE IF m[name] = <<>> THEN [panic |-> FALSE, value |-> None]
    ELSE IF SortPanics(m[name]) THEN [panic |-> TRUE, value |-> None]
    ELSE LET values == m[name]
             count == Len(values)
             sorted == SortAscending(values)
         IN  [panic |-> FALSE,
              value |-> Some([count |-> count,
                              sum |-> SumSeq(values),
                              mean |-> <<SumSeq(values), count>>,
                              p50 |-> sorted[P50Index(count) + 1],
                              p99 |-> sorted[P99Index(count) + 1]])]

\* ------------------------------------------------------------------ state
NoRet == [op |-> "none", outcome |-> "none", value |-> None]

Init ==
    /\ counters = EmptyMap
    /\ histograms = EmptyMap
    /\ gauges = EmptyMap
    /\ active_spans = <<>>
    /\ poisoned = [m \in Mutexes |-> FALSE]
    /\ holder = [m \in Mutexes |-> NoThread]
    /\ overflow_checks = "unsettled"
    /\ guard = [t \in Threads |-> None]
    /\ pc = [t \in Threads |-> "idle"]
    /\ ret = NoRet
    /\ call = [t \in Threads |-> "none"]
    /\ spanLog = <<>>
    /\ calls = 0
    /\ exporter = [format |-> "Json", config |-> DefaultConfig]
    /\ spans = <<>>
    /\ network = <<>>

\* A thread with nothing in hand: it owns no guard and is inside no call.
\* Threads in this state are interchangeable, so the one that moves next
\* is taken to be "t1" when both are.
Unoccupied(t) == pc[t] = "idle" /\ guard[t] = None
Free(t) == Unoccupied(t) /\ (t = "t1" \/ ~Unoccupied("t1"))

\* Mutex::lock() blocks while another thread holds the mutex.
CanLock(m) == holder[m] = NoThread

\* ret tells how the call that the last step ended went, for the two things
\* the state does not show: a panic, and the value snapshot() returned. After
\* any other step ret = NoRet: a write that returns normally returns (), and
\* a read of one map returns the value of get_counter, get_gauge or
\* get_histogram_stats in the state it leaves unchanged.
Returns(op, value) == ret' = [op |-> op, outcome |-> "ok", value |-> value]
Panics(op) == ret' = [op |-> op, outcome |-> "panic", value |-> None]
ReturnsUnit == ret' = NoRet
ReadReturns == ret' = NoRet

\* The collector's methods are one critical section each. They are called by
\* any thread that is not inside record_span or snapshot; which one makes no
\* difference to the state. Writes are counted, reads are not.
CanWrite == calls < MaxCalls

\* --------------------------------------------- MetricsCollector, as calls
\* increment / increment_by (lib.rs 97-105): one critical section on counters.
IncrementByCall(op, name, value) ==
    /\ CanWrite
    /\ CanLock("counters")
    /\ calls' = calls + 1
    /\ IF poisoned["counters"]
       THEN /\ Panics(op)
            /\ UNCHANGED <<counters, poisoned, overflow_checks>>
       ELSE \E checks \in Profiles(counters, name, value) :
            LET r == increment_by(counters, name, value, checks)
            IN  /\ overflow_checks' = checks
                /\ counters' = r.map
                /\ poisoned' = [poisoned EXCEPT !["counters"] = r.panic]
                /\ IF r.panic THEN Panics(op) ELSE ReturnsUnit
    /\ UNCHANGED <<histograms, gauges, exportVars, active_spans, holder, guard, pc, call, spanLog>>

Increment(name) == IncrementByCall("increment", name, 1)
IncrementBy(name, value) == IncrementByCall("increment_by", name, value)

\* record_histogram (lib.rs 108-111)
RecordHistogram(name, value) ==
    /\ CanWrite
    /\ CanLock("histograms")
    /\ calls' = calls + 1
    /\ IF poisoned["histograms"]
       THEN /\ Panics("record_histogram")
            /\ UNCHANGED histograms
       ELSE /\ histograms' = record_histogram(histograms, name, value)
            /\ ReturnsUnit
    /\ UNCHANGED <<counters, gauges, exportVars, active_spans, poisoned, holder,
                   overflow_checks, guard, pc, call, spanLog>>

\* set_gauge (lib.rs 114-117)
SetGauge(name, value) ==
    /\ CanWrite
    /\ CanLock("gauges")
    /\ calls' = calls + 1
    /\ IF poisoned["gauges"]
       THEN /\ Panics("set_gauge")
            /\ UNCHANGED gauges
       ELSE /\ gauges' = set_gauge(gauges, name, value)
            /\ ReturnsUnit
    /\ UNCHANGED <<counters, histograms, exportVars, active_spans, poisoned, holder,
                   overflow_checks, guard, pc, call, spanLog>>

\* get_counter (lib.rs 120-122)
GetCounter(name) ==
    /\ CanLock("counters")
    /\ IF poisoned["counters"]
       THEN Panics("get_counter")
       ELSE ReadReturns
    /\ UNCHANGED <<counters, histograms, gauges, exportVars, active_spans, poisoned, holder,
                   overflow_checks, guard, pc, call, spanLog, calls>>

\* get_gauge (lib.rs 125-127)
GetGauge(name) ==
    /\ CanLock("gauges")
    /\ IF poisoned["gauges"]
       THEN Panics("get_gauge")
       ELSE ReadReturns
    /\ UNCHANGED <<counters, histograms, gauges, exportVars, active_spans, poisoned, holder,
                   overflow_checks, guard, pc, call, spanLog, calls>>

\* get_histogram_stats (lib.rs 130-144): the unwrap inside sort_by panics
\* while the MutexGuard `histograms` is alive, which poisons the mutex.
GetHistogramStats(name) ==
    /\ CanLock("histograms")
    /\ IF poisoned["histograms"]
       THEN /\ Panics("get_histogram_stats")
            /\ UNCHANGED poisoned
       ELSE LET r == get_histogram_stats(histograms, name)
            IN  /\ poisoned' = [poisoned EXCEPT !["histograms"] = r.panic]
                /\ IF r.panic THEN Panics("get_histogram_stats")
                   ELSE ReadReturns
    /\ UNCHANGED <<counters, histograms, gauges, exportVars, active_spans, holder,
                   overflow_checks, guard, pc, call, spanLog, calls>>

\* ------------------------------------------------------------- snapshot
\* snapshot (lib.rs 216-229) takes the four locks in this order and keeps
\* each MutexGuard until it returns.
SnapshotOrder == <<"active_spans", "counters", "gauges", "histograms">>
SnapshotPc(i) == "snap_" \o SnapshotOrder[i]
HeldBefore(i) == {SnapshotOrder[j] : j \in 1..(i - 1)}

\* A snapshot that counts the names callers created only, leaving out the
\* counters and histograms that record_span creates. The source counts all.
TelemetrySnapshotCallerNames ==
    [service |-> ServiceName,
     span_count |-> Len(active_spans),
     counter_count |-> Cardinality(DOMAIN counters \cap CounterNames),
     gauge_count |-> Cardinality(DOMAIN gauges),
     histogram_count |-> Cardinality(DOMAIN histograms \cap CallerHistNames),
     uptime_secs |-> 0]

TelemetrySnapshot ==
    [service |-> ServiceName,
     span_count |-> Len(active_spans),
     counter_count |-> Cardinality(DOMAIN counters),
     gauge_count |-> Cardinality(DOMAIN gauges),
     histogram_count |-> Cardinality(DOMAIN histograms),
     uptime_secs |-> 0]

\* A snapshot that hands the buffer over: it empties active_spans as it
\* returns. The source does not do this.
SnapshotLockDraining(t, i) ==
    /\ IF i = 1 THEN Free(t) ELSE pc[t] = SnapshotPc(i)
    /\ CanLock(SnapshotOrder[i])
    /\ IF poisoned[SnapshotOrder[i]]
       THEN /\ poisoned' = [m \in Mutexes |-> poisoned[m] \/ m \in HeldBefore(i)]
            /\ holder' = [m \in Mutexes |->
                            IF m \in HeldBefore(i) THEN NoThread ELSE holder[m]]
            /\ pc' = [pc EXCEPT ![t] = "idle"]
            /\ Panics("snapshot")
            /\ UNCHANGED active_spans
       ELSE IF i < Len(SnapshotOrder)
       THEN /\ holder' = [holder EXCEPT ![SnapshotOrder[i]] = t]
            /\ pc' = [pc EXCEPT ![t] = SnapshotPc(i + 1)]
            /\ ret' = NoRet
            /\ UNCHANGED <<poisoned, active_spans>>
       ELSE /\ holder' = [m \in Mutexes |->
                            IF m \in HeldBefore(i) THEN NoThread ELSE holder[m]]
            /\ pc' = [pc EXCEPT ![t] = "idle"]
            /\ Returns("snapshot", Some(TelemetrySnapshot))
            /\ active_spans' = <<>>
            /\ UNCHANGED poisoned
    /\ UNCHANGED <<counters, histograms, gauges, exportVars, overflow_checks,
                   guard, call, spanLog, calls>>

\* A snapshot that returns with its four MutexGuards still alive (leaked, or
\* moved into the value it returns). The source drops them at the return.
SnapshotLockLeaking(t, i) ==
    /\ IF i = 1 THEN Free(t) ELSE pc[t] = SnapshotPc(i)
    /\ CanLock(SnapshotOrder[i])
    /\ IF poisoned[SnapshotOrder[i]]
       THEN /\ poisoned' = [m \in Mutexes |-> poisoned[m] \/ m \in HeldBefore(i)]
            /\ holder' = [m \in Mutexes |->
                            IF m \in HeldBefore(i) THEN NoThread ELSE holder[m]]
            /\ pc' = [pc EXCEPT ![t] = "idle"]
            /\ Panics("snapshot")
       ELSE IF i < Len(SnapshotOrder)
       THEN /\ holder' = [holder EXCEPT ![SnapshotOrder[i]] = t]
            /\ pc' = [pc EXCEPT ![t] = SnapshotPc(i + 1)]
            /\ ret' = NoRet
            /\ UNCHANGED poisoned
       ELSE /\ holder' = [holder EXCEPT ![SnapshotOrder[i]] = t]
            /\ pc' = [pc EXCEPT ![t] = "idle"]
            /\ Returns("snapshot", Some(TelemetrySnapshot))
            /\ UNCHANGED poisoned
    /\ UNCHANGED <<counters, histograms, gauges, exportVars, active_spans, overflow_checks,
                   guard, call, spanLog, calls>>

\* The i-th lock().unwrap() of snapshot, by a thread that owns no guard. On a
\* poisoned mutex the unwrap panics; unwinding drops the guards taken so far,
\* which poisons those mutexes.
SnapshotLock(t, i) ==
    /\ IF i = 1 THEN Free(t) ELSE pc[t] = SnapshotPc(i)
    /\ CanLock(SnapshotOrder[i])
    /\ IF poisoned[SnapshotOrder[i]]
       THEN /\ poisoned' = [m \in Mutexes |-> poisoned[m] \/ m \in HeldBefore(i)]
            /\ holder' = [m \in Mutexes |->
                            IF m \in HeldBefore(i) THEN NoThread ELSE holder[m]]
            /\ pc' = [pc EXCEPT ![t] = "idle"]
            /\ Panics("snapshot")
       ELSE IF i < Len(SnapshotOrder)
       THEN /\ holder' = [holder EXCEPT ![SnapshotOrder[i]] = t]
            /\ pc' = [pc EXCEPT ![t] = SnapshotPc(i + 1)]
            /\ ret' = NoRet
            /\ UNCHANGED poisoned
       ELSE /\ holder' = [m \in Mutexes |->
                            IF m \in HeldBefore(i) THEN NoThread ELSE holder[m]]
            /\ pc' = [pc EXCEPT ![t] = "idle"]
            /\ Returns("snapshot", Some(TelemetrySnapshot))
            /\ UNCHANGED poisoned
    /\ UNCHANGED <<counters, histograms, gauges, exportVars, active_spans, overflow_checks,
                   guard, call, spanLog, calls>>

\* ------------------------------------------------------------ span guard
\* SpanRecord (lib.rs 28-36). `id` is not a field of the source: it names
\* the start_span call the record came from. start_time (wall clock) is
\* read by nothing and is left out.
NewRecord(id, name, operation) ==
    [id |-> id,
     name |-> name,
     service |-> ServiceName,
     operation |-> operation,
     duration |-> None,
     attributes |-> <<>>,
     status |-> StatusUnset]


\* start_span (lib.rs 179-194)
StartSpan(t, name, operation) ==
    /\ Free(t)
    /\ Len(spanLog) < MaxSpans
    /\ guard' = [guard EXCEPT ![t] = Some(NewRecord(Len(spanLog) + 1, name, operation))]
    /\ spanLog' = Append(spanLog, "active")
    /\ ret' = NoRet
    /\ UNCHANGED <<counters, histograms, gauges, exportVars, active_spans, poisoned, holder,
                   overflow_checks, pc, call, calls>>

\* A set_attribute that keeps one value per key: the pair replaces the pair
\* the record already has under its key. The source pushes.
SetAttributeLastWins(t, kv) ==
    /\ pc[t] = "idle"
    /\ guard[t] # None
    /\ CanWrite
    /\ calls' = calls + 1
    /\ LET old == guard[t][1].attributes
           at == {i \in 1..Len(old) : old[i][1] = kv[1]}
           new == IF at = {} THEN Append(old, kv)
                  ELSE [i \in 1..Len(old) |-> IF i \in at THEN kv ELSE old[i]]
       IN  guard' = [guard EXCEPT ![t] = Some([guard[t][1] EXCEPT !.attributes = new])]
    /\ ret' = NoRet
    /\ UNCHANGED <<counters, histograms, gauges, exportVars, active_spans, poisoned, holder,
                   overflow_checks, pc, call, spanLog>>

\* set_attribute (lib.rs 241-243)
SetAttribute(t, kv) ==
    /\ pc[t] = "idle"
    /\ guard[t] # None
    /\ CanWrite
    /\ calls' = calls + 1
    /\ guard' = [guard EXCEPT ![t] = Some([guard[t][1] EXCEPT !.attributes = Append(@, kv)])]
    /\ ret' = NoRet
    /\ UNCHANGED <<counters, histograms, gauges, exportVars, active_spans, poisoned, holder,
                   overflow_checks, pc, call, spanLog>>

\* ------------------------------------------------------------ record_span
\* TelemetryConfig.max_buffer_size as configured by the caller (config.rs 21);
\* nothing in lib.rs reads it.
max_buffer_size == 1

\* matches!(span.status, SpanStatus::Error(_)) (lib.rs 204)
IsError(status) == status.tag = "Error"

\* spans.push(span) (lib.rs 211-212)
PushSpanCapped(buffer, span) ==
    IF Len(buffer) >= max_buffer_size THEN Append(Tail(buffer), span)
    ELSE Append(buffer, span)
PushSpan(buffer, span) == Append(buffer, span)

\* record_span returned: finish forgets the guard (lib.rs 260), so no
\* destructor runs; a guard being dropped is simply gone.
RecordSpanReturns(t, g) ==
    /\ guard' = [guard EXCEPT ![t] = None]
    /\ pc' = [pc EXCEPT ![t] = "idle"]
    /\ call' = [call EXCEPT ![t] = "none"]
    /\ spanLog' = [spanLog EXCEPT ![g.id] = "ended"]
    /\ ReturnsUnit

\* A lock().unwrap() or `+=` inside record_span panicked, in the call `via`.
\* Unwinding out of finish drops `self`: Drop::drop (lib.rs 264-271) finds
\* the duration finish has set (lib.rs 258) and records nothing. The span
\* has ended and is in no buffer.
RecordSpanUnwinds(t, g, via) ==
    /\ Panics(via)
    /\ guard' = [guard EXCEPT ![t] = None]
    /\ pc' = [pc EXCEPT ![t] = "idle"]
    /\ call' = [call EXCEPT ![t] = "none"]
    /\ spanLog' = [spanLog EXCEPT ![g.id] = "ended"]

\* self.metrics.increment(name) inside record_span (lib.rs 203-206), for the
\* record g of thread t inside the call `via`; `first` tells the increment
\* of spans.total from that of spans.errors.
RecordSpanIncrement(t, g, via, first, name) ==
    /\ CanLock("counters")
    /\ IF poisoned["counters"]
       THEN /\ RecordSpanUnwinds(t, g, via)
            /\ UNCHANGED <<counters, poisoned, overflow_checks>>
       ELSE \E checks \in Profiles(counters, name, 1) :
            LET r == increment_by(counters, name, 1, checks)
            IN  /\ overflow_checks' = checks
                /\ counters' = r.map
                /\ poisoned' = [poisoned EXCEPT !["counters"] = r.panic]
                /\ IF r.panic
                   THEN RecordSpanUnwinds(t, g, via)
                   ELSE /\ pc' = [pc EXCEPT ![t] =
                                    IF first /\ IsError(g.status)
                                    THEN "rs_errors" ELSE "rs_hist"]
                        /\ guard' = [guard EXCEPT ![t] = Some(g)]
                        /\ call' = [call EXCEPT ![t] = via]
                        /\ ret' = NoRet
                        /\ UNCHANGED spanLog
    /\ UNCHANGED <<histograms, gauges, exportVars, active_spans, holder, calls>>

\* ------------------------------------------------------------ finalizing
\* The status Drop::drop gives a guard that was never finalized (lib.rs 268)
DropStatusUnset == StatusUnset
DropStatus == StatusOk

\* Drop::drop records only a guard whose duration is still absent (lib.rs 266)
DropRecords(record) == record.duration = None

\* self.record.duration = Some(self.start.elapsed()) with the status given
\* (lib.rs 247, 253, 258, 267-268)
Finished(record, status, elapsed) ==
    [record EXCEPT !.status = status, !.duration = Some(elapsed)]

\* The guard of thread t is finalized by the call `via`: its status and
\* duration are set, which only its owner sees, and record_span is entered
\* and makes its first step, the increment of spans.total (lib.rs 203).
Finalize(t, via, status, elapsed) ==
    /\ pc[t] = "idle"
    /\ guard[t] # None
    /\ RecordSpanIncrement(t, Finished(guard[t][1], status, elapsed), via, TRUE, SpansTotal)

\* set_ok, finish, and record_span up to spans.total (lib.rs 246-249, 257-259)
SetOk(t, elapsed) == Finalize(t, "set_ok", StatusOk, elapsed)

\* set_error, finish, and record_span up to spans.total (lib.rs 252-259)
SetError(t, msg, elapsed) == Finalize(t, "set_error", StatusError(msg), elapsed)

\* The guard goes out of scope while active, and record_span up to
\* spans.total (lib.rs 264-269)
Drop(t, elapsed) ==
    /\ guard[t] # None
    /\ DropRecords(guard[t][1])
    /\ Finalize(t, "drop", DropStatus, elapsed)

\* if matches!(status, Error(_)) { increment("spans.errors") } (lib.rs 204-206)
RecordSpanErrors(t) ==
    /\ pc[t] = "rs_errors"
    /\ RecordSpanIncrement(t, guard[t][1], call[t], FALSE, SpansErrors)

\* if let Some(duration) = span.duration { record_histogram(key, ms) }
\* (lib.rs 207-210)
RecordSpanHistogram(t) ==
    LET g == guard[t][1]
    IN  /\ pc[t] = "rs_hist"
        /\ IF g.duration = None
           THEN /\ pc' = [pc EXCEPT ![t] = "rs_push"]
                /\ ret' = NoRet
                /\ UNCHANGED <<histograms, guard, call, spanLog>>
           ELSE /\ CanLock("histograms")
                /\ IF poisoned["histograms"]
                   THEN /\ RecordSpanUnwinds(t, g, call[t])
                        /\ UNCHANGED histograms
                   ELSE /\ histograms' = record_histogram(histograms,
                                             DurationKey(g.operation), g.duration[1])
                        /\ pc' = [pc EXCEPT ![t] = "rs_push"]
                        /\ ret' = NoRet
                        /\ UNCHANGED <<guard, call, spanLog>>
        /\ UNCHANGED <<counters, gauges, exportVars, active_spans, poisoned, holder,
                       overflow_checks, calls>>

\* let mut spans = self.active_spans.lock().unwrap(); spans.push(span)
\* (lib.rs 211-212), then the return through finish or drop.
RecordSpanPush(t) ==
    LET g == guard[t][1]
    IN  /\ pc[t] = "rs_push"
        /\ CanLock("active_spans")
        /\ IF poisoned["active_spans"]
           THEN /\ RecordSpanUnwinds(t, g, call[t])
                /\ UNCHANGED active_spans
           ELSE /\ active_spans' = PushSpan(active_spans, g)
                /\ RecordSpanReturns(t, g)
        /\ UNCHANGED <<counters, histograms, gauges, exportVars, poisoned, holder,
                       overflow_checks, calls>>

\* ------------------------------------------------------------------- Next
Next ==
    \/ \E n \in CounterNames : Increment(n)
    \/ \E n \in CounterNames, v \in Amounts : IncrementBy(n, v)
    \/ \E n \in CallerHistNames, v \in Samples : RecordHistogram(n, v)
    \/ \E n \in GaugeNames, v \in GaugeValues : SetGauge(n, v)
    \/ \E n \in CounterNames : GetCounter(n)
    \/ \E n \in GaugeNames : GetGauge(n)
    \/ \E n \in HistNames : GetHistogramStats(n)
    \/ \E t \in Threads, i \in 1..Len(SnapshotOrder) : SnapshotLock(t, i)
    \/ \E t \in Threads, n \in SpanNames, o \in SpanOps : StartSpan(t, n, o)
    \/ \E t \in Threads, kv \in AttrPairs : SetAttribute(t, kv)
    \/ \E t \in Threads, e \in ElapsedMs : SetOk(t, e)
    \/ \E t \in Threads, m \in ErrorMsgs, e \in ElapsedMs : SetError(t, m, e)
    \/ \E t \in Threads, e \in ElapsedMs : Drop(t, e)
    \/ \E t \in Threads : RecordSpanErrors(t)
    \/ \E t \in Threads : RecordSpanHistogram(t)
    \/ \E t \in Threads : RecordSpanPush(t)

Spec == Init /\ [][Next]_vars

\* Scheduling: a guard cannot be kept for ever (its scope ends, and then
\* Drop::drop runs), a thread inside record_span or snapshot keeps running,
\* and a thread waiting for a mutex gets it at some point.
Progress(t) ==
    \/ \E e \in ElapsedMs : Drop(t, e)
    \/ RecordSpanErrors(t)
    \/ RecordSpanHistogram(t)
    \/ RecordSpanPush(t)
    \/ \E i \in 2..Len(SnapshotOrder) : SnapshotLock(t, i)

FairSpec == Spec /\ \A t \in Threads : SF_vars(Progress(t))

\* ----------------------------------------------------------------- export
\* The status string of an exported span (exporter.rs 40-44)
StatusString(status) ==
    CASE status.tag = "Ok" -> "ok"
      [] status.tag = "Error" -> "error: " \o status.msg
      [] status.tag = "Unset" -> "unset"

\* ------------------------------------------------------------ vocabulary
\* The records of span id in a buffer.
RecordsOf(buffer, id) == {i \in DOMAIN buffer : buffer[i].id = id}

IsPrefix(s, u) == Len(s) <= Len(u) /\ SubSeq(u, 1, Len(s)) = s

\* The span of thread t ends in this step: its guard is gone after it.
EndsNow(t) == guard[t] # None /\ guard'[t] = None

\* The call that ends it: the one that panics in this step, or the one the
\* thread has been inside.
EndedVia(t) == IF ret'.outcome = "panic" THEN ret'.op ELSE call[t]

\* Thread t is inside record_span.
Finalizing(t) == pc[t] \in {"rs_errors", "rs_hist", "rs_push"}

\* Thread t enters record_span in this step through the call `via`.
Enters(t, via) ==
    /\ pc[t] = "idle"
    /\ guard[t] # None
    /\ \/ pc'[t] \in {"rs_errors", "rs_hist"} /\ call'[t] = via
       \/ EndsNow(t) /\ EndedVia(t) = via

Total(m) == get_counter(m, SpansTotal)
Errors(m) == get_counter(m, SpansErrors)

\* The number of samples recorded under a histogram name.
SampleCount(m, name) == IF name \in DOMAIN m THEN Len(m[name]) ELSE 0

\* The calls that the interface says cannot fail.
Infallible == {"increment", "increment_by", "record_histogram", "set_gauge",
               "set_ok", "set_error", "drop"}

\* ----------------------------------------------------------------- claims
\* C1: exactly-once recording. Whichever way a span ends (set_ok, set_error
\* or the guard dropped while active), the buffer holds exactly one record
\* of it from then on, none before, and never two.
C1_ExactlyOnce ==
    \A id \in DOMAIN spanLog :
        LET n == Cardinality(RecordsOf(active_spans, id))
        IN  /\ n <= 1
            /\ spanLog[id] = "active" => n = 0
            /\ spanLog[id] = "ended" => n = 1

\* The half of C1 that the code keeps: no span is ever recorded twice.
NeverRecordedTwice ==
    \A id \in DOMAIN spanLog : Cardinality(RecordsOf(active_spans, id)) <= 1

\* C2: implicit finalize. A guard dropped while still active increments
\* spans.total by 1 as it enters record_span, never increments spans.errors,
\* and ends recorded with status Ok and a present duration.
C2_ImplicitFinalize ==
    [][\A t \in Threads :
        /\ Enters(t, "drop") => Total(counters') = Total(counters) + 1
        /\ call'[t] = "drop" => pc'[t] # "rs_errors"
        /\ (EndsNow(t) /\ EndedVia(t) = "drop") =>
               \E i \in RecordsOf(active_spans', guard[t][1].id) :
                   /\ active_spans'[i].status = StatusOk
                   /\ active_spans'[i].duration # None]_vars

\* C3: a span finalized with set_error(msg) increments spans.total by 1 as
\* it enters record_span, then spans.errors by 1, and ends buffered with
\* status Error(msg), which is exported as "error: " followed by msg; a span
\* finalized with status Ok never increments spans.errors.
C3_SetError ==
    [][\A t \in Threads :
        /\ Enters(t, "set_error") =>
               /\ Total(counters') = Total(counters) + 1
               /\ pc'[t] = "rs_errors"
        /\ (pc[t] = "rs_errors" /\ pc'[t] # "rs_errors") =>
               /\ call[t] = "set_error"
               /\ Errors(counters') = Errors(counters) + 1
        /\ call'[t] \in {"set_ok", "drop"} => pc'[t] # "rs_errors"
        /\ (EndsNow(t) /\ EndedVia(t) = "set_error") =>
               \E i \in RecordsOf(active_spans', guard[t][1].id), m \in ErrorMsgs :
                   /\ guard[t][1].status = StatusError(m)
                   /\ active_spans'[i].status = StatusError(m)
                   /\ StatusString(active_spans'[i].status) = "error: " \o m]_vars

\* increment or increment_by of the amount v on the counter n returns
\* normally in this step.
Applies(n, v) ==
    /\ \E op \in {"increment", "increment_by"} : IncrementByCall(op, n, v)
    /\ ret'.outcome # "panic"

\* C4: no lost updates. Every increment / increment_by call that returns has
\* added exactly its amount to the value the calls before it left, so that
\* once all calls have returned get_counter is the sum of the amounts.
C4_NoLostUpdates ==
    [][\A n \in CounterNames, v \in Amounts \cup {1} :
        Applies(n, v) =>
            get_counter(counters', n) = get_counter(counters, n) + v]_vars

\* C5: counters are monotonically non-decreasing. get_counter never returns
\* less than it returned before, for any counter name, also when the sum
\* reaches the top of the u64 range.
C5_Monotonic ==
    [][\A n \in CounterNames \cup {SpansTotal, SpansErrors} :
        get_counter(counters', n) >= get_counter(counters, n)]_vars

\* C6: no error path. increment, increment_by, record_histogram, set_gauge
\* and span finalization (set_ok, set_error, drop) never panic, in any
\* reachable state, whatever was called before.
C6_NoErrorPath == ret.outcome = "panic" => ret.op \notin Infallible

\* C7: every started span is eventually recorded. Under fair scheduling a
\* started span leads to a state where it is in the buffer and spans.total
\* counts it.
C7_EventuallyRecorded ==
    \A id \in 1..MaxSpans :
        (id \in DOMAIN spanLog) ~>
            (RecordsOf(active_spans, id) # {} /\ Total(counters) >= Len(active_spans))

\* C8: finalization side effects happen once per span. When no thread is
\* inside record_span, spans.total is the number of spans that have ended and
\* the length of the buffer, and each span.<operation>.duration_ms holds as
\* many samples as the buffer holds spans of that operation.
C8_OncePerSpan ==
    (\A t \in Threads : ~Finalizing(t)) =>
        /\ Total(counters) = Len(active_spans)
        /\ Total(counters) = Cardinality({id \in DOMAIN spanLog : spanLog[id] = "ended"})
        /\ \A op \in SpanOps :
               SampleCount(histograms, DurationKey(op)) =
                   Cardinality({i \in DOMAIN active_spans : active_spans[i].operation = op})

\* C9: every record in the span buffer is Finished: its duration is present
\* and its status is Ok or Error(message), never Unset.
C9_BufferedFinished ==
    \A i \in DOMAIN active_spans :
        /\ active_spans[i].duration # None
        /\ \/ active_spans[i].status = StatusOk
           \/ \E m \in ErrorMsgs : active_spans[i].status = StatusError(m)

\* The buffer holds a span recorded by drop or set_ok and one recorded by
\* set_error.
C9_Witness ==
    /\ \E i \in DOMAIN active_spans : active_spans[i].status = StatusOk
    /\ \E i \in DOMAIN active_spans : active_spans[i].status.tag = "Error"

Aggregate == <<active_spans, counters, gauges, histograms>>

\* A caller's write returns or panics in this step.
CallerWrite == calls' # calls

\* Some thread makes a step of record_span.
RecordSpanStep ==
    \E t \in Threads :
        /\ pc'[t] # pc[t] \/ guard'[t] # guard[t]
        /\ Finalizing(t) \/ pc'[t] \in {"rs_errors", "rs_hist", "rs_push"}

\* C11: snapshot is a pure read. No step of snapshot (taking a lock,
\* returning, or panicking on a poisoned mutex) changes the span buffer or an
\* entry of the counter, gauge or histogram map; and since only writes change
\* them, two snapshots with no write in between read the same sizes.
C11_SnapshotPureRead ==
    [][/\ \/ Aggregate' = Aggregate
          \/ ~ \E t \in Threads, i \in 1..Len(SnapshotOrder) : SnapshotLock(t, i)
       /\ \/ Aggregate' = Aggregate
          \/ CallerWrite
          \/ RecordSpanStep]_vars

\* A snapshot has returned with spans in the buffer and entries in every map.
C11_Witness ==
    /\ ret.op = "snapshot" /\ ret.outcome = "ok"
    /\ Len(active_spans) >= 1
    /\ DOMAIN counters # {} /\ DOMAIN histograms # {}

\* C12: snapshot reports current sizes. When snapshot returns, span_count is
\* the number of records in the buffer and counter_count, gauge_count and
\* histogram_count are the numbers of names in the three maps, those that
\* record_span created included.
C12_SnapshotSizes ==
    (ret.op = "snapshot" /\ ret.outcome = "ok") =>
        LET snap == ret.value[1]
        IN  /\ snap.span_count = Len(active_spans)
            /\ snap.counter_count = Cardinality(DOMAIN counters)
            /\ snap.gauge_count = Cardinality(DOMAIN gauges)
            /\ snap.histogram_count = Cardinality(DOMAIN histograms)
            /\ Len(active_spans) >= 1 =>
                   /\ SpansTotal \in DOMAIN counters
                   /\ snap.counter_count >= 1
                   /\ snap.histogram_count >= 1

\* Two finalized spans, one caller counter and one gauge: the snapshot says
\* span_count = 2, counter_count >= 1, gauge_count = 1.
C12_Witness ==
    /\ ret.op = "snapshot" /\ ret.outcome = "ok"
    /\ Len(active_spans) = 2
    /\ DOMAIN counters \cap CounterNames # {}
    /\ DOMAIN gauges # {}
    /\ ret.value[1].span_count = 2
    /\ ret.value[1].counter_count >= 1
    /\ ret.value[1].gauge_count = 1

\* ------------------------------------------- the MetricsCollector alone
\* The collector's reads, with the value they return kept in ret.

\* A get_counter that looks the name up with entry(name).or_insert(0), and so
\* registers a name it did not find. The source uses get(name).
GetCounterRegisters(name) ==
    /\ CanLock("counters")
    /\ IF poisoned["counters"]
       THEN Panics("get_counter") /\ UNCHANGED counters
       ELSE /\ Returns("get_counter", get_counter(counters, name))
            /\ counters' = Put(counters, name, get_counter(counters, name))
    /\ UNCHANGED <<histograms, gauges, exportVars, active_spans, poisoned, holder,
                   overflow_checks, guard, pc, call, spanLog, calls>>

\* get_counter (lib.rs 120-122)
GetCounterReturns(name) ==
    /\ CanLock("counters")
    /\ IF poisoned["counters"]
       THEN Panics("get_counter")
       ELSE Returns("get_counter", get_counter(counters, name))
    /\ UNCHANGED <<counters, histograms, gauges, exportVars, active_spans, poisoned, holder,
                   overflow_checks, guard, pc, call, spanLog, calls>>

\* get_gauge (lib.rs 125-127)
GetGaugeReturns(name) ==
    /\ CanLock("gauges")
    /\ IF poisoned["gauges"]
       THEN Panics("get_gauge")
       ELSE Returns("get_gauge", get_gauge(gauges, name))
    /\ UNCHANGED <<counters, histograms, gauges, exportVars, active_spans, poisoned, holder,
                   overflow_checks, guard, pc, call, spanLog, calls>>

\* get_histogram_stats (lib.rs 130-144)
GetHistogramStatsReturns(name) ==
    /\ CanLock("histograms")
    /\ IF poisoned["histograms"]
       THEN /\ Panics("get_histogram_stats")
            /\ UNCHANGED poisoned
       ELSE LET r == get_histogram_stats(histograms, name)
            IN  /\ poisoned' = [poisoned EXCEPT !["histograms"] = r.panic]
                /\ IF r.panic THEN Panics("get_histogram_stats")
                   ELSE Returns("get_histogram_stats", r.value)
    /\ UNCHANGED <<counters, histograms, gauges, exportVars, active_spans, holder,
                   overflow_checks, guard, pc, call, spanLog, calls>>

\* Inputs of the collector's calls.
CollectorCounterNames == {"requests", "tokens"}
CollectorAmounts == {2}
CollectorGaugeNames == {"mem", "cpu"}
CollectorGaugeValues == {0, 42}
CollectorHistNames == {"latency", "ttft"}
CollectorSamples == {10, 20, NaN}

\* Calls on a MetricsCollector from its construction on, in any order.
CollectorNext ==
    \/ \E n \in CollectorCounterNames : Increment(n)
    \/ \E n \in CollectorCounterNames, v \in CollectorAmounts : IncrementBy(n, v)
    \/ \E n \in CollectorHistNames, v \in CollectorSamples : RecordHistogram(n, v)
    \/ \E n \in CollectorGaugeNames, v \in CollectorGaugeValues : SetGauge(n, v)
    \/ \E n \in CollectorCounterNames : GetCounterReturns(n)
    \/ \E n \in CollectorGaugeNames : GetGaugeReturns(n)
    \/ \E n \in CollectorHistNames : GetHistogramStatsReturns(n)

CollectorSpec == Init /\ [][CollectorNext]_vars

\* set_gauge(n, v) returns in this step.
SetsGauge(n, v) == SetGauge(n, v) /\ ret'.outcome # "panic"

\* C13: gauge semantics. A name on which set_gauge was never called has no
\* value (None, not zero); a set_gauge(n, v) that returns makes v the value of
\* n, whatever it was; no other step changes the value of n; and get_gauge(n)
\* returns that value. So get_gauge returns the value of the most recent
\* set_gauge on the name, and None before the first.
C13_GaugeLastWrite ==
    /\ \A n \in CollectorGaugeNames : get_gauge(gauges, n) = None
    /\ [][\A n \in CollectorGaugeNames :
            /\ \A v \in CollectorGaugeValues :
                   SetsGauge(n, v) => get_gauge(gauges', n) = Some(v)
            /\ (~ \E v \in CollectorGaugeValues : SetsGauge(n, v)) =>
                   get_gauge(gauges', n) = get_gauge(gauges, n)
            /\ (GetGaugeReturns(n) /\ ret'.outcome = "ok") =>
                   ret'.value = IF n \in DOMAIN gauges THEN Some(gauges[n]) ELSE None]_vars

\* get_gauge has returned None for a name never set, after another name was
\* set twice, to 42 and then to 0.
C13_Witness ==
    /\ ret.op = "get_gauge" /\ ret.outcome = "ok" /\ ret.value = None
    /\ calls = 2
    /\ Cardinality(DOMAIN gauges) = 1
    /\ \E n \in DOMAIN gauges : gauges[n] = 0

\* record_histogram(n, v) returns in this step.
RecordsSample(n, v) == RecordHistogram(n, v) /\ ret'.outcome # "panic"

\* Samples are counted by the record_histogram calls that returned: none at
\* the start, one more with each call, and no other step changes the count.
SamplesAreCalls ==
    \A n \in CollectorHistNames :
        /\ \A v \in CollectorSamples :
               RecordsSample(n, v) =>
                   SampleCount(histograms', n) = SampleCount(histograms, n) + 1
        /\ (~ \E v \in CollectorSamples : RecordsSample(n, v)) =>
               SampleCount(histograms', n) = SampleCount(histograms, n)

\* What get_histogram_stats(n) gives when it returns in this step: no value
\* exactly when n has no sample, and otherwise the number of samples n has now.
StatsCountIsCurrent(n) ==
    /\ ret'.value = None <=> SampleCount(histograms, n) = 0
    /\ ret'.value # None => ret'.value[1].count = SampleCount(histograms, n)

\* C14: get_histogram_stats(name) returns no value exactly when no sample was
\* recorded under name, and otherwise returns count equal to the number of
\* record_histogram calls made on that name so far, for all recorded samples.
C14_StatsCount ==
    /\ \A n \in CollectorHistNames : SampleCount(histograms, n) = 0
    /\ [][/\ SamplesAreCalls
          /\ \A n \in CollectorHistNames :
                 GetHistogramStatsReturns(n) =>
                     ret'.outcome = "ok" /\ StatsCountIsCurrent(n)]_vars

\* The part of C14 that the code keeps: every get_histogram_stats call that
\* returns gives the count of the samples recorded so far.
StatsCountWhenReturned ==
    [][/\ SamplesAreCalls
       /\ \A n \in CollectorHistNames :
              (GetHistogramStatsReturns(n) /\ ret'.outcome = "ok") =>
                  StatsCountIsCurrent(n)]_vars

\* ------------------------------------------- get_histogram_stats as a function
\* The statistics of one histogram, for every sequence of samples that
\* record_histogram can have stored under a name.
MaxSamples == 5
StatsSamples == {1, 2, 3, NaN}

SeqsUpTo(S, n) == UNION {[1..k -> S] : k \in 0..n}

\* A collector in which "latency" holds any samples (a name that is present
\* holds at least one: record_histogram pushes when it inserts), or is absent.
StatsInit ==
    /\ counters = EmptyMap
    /\ histograms \in {EmptyMap} \cup
           {Put(EmptyMap, "latency", s) : s \in SeqsUpTo(StatsSamples, MaxSamples) \ {<<>>}}
    /\ gauges = EmptyMap
    /\ active_spans = <<>>
    /\ poisoned = [m \in Mutexes |-> FALSE]
    /\ holder = [m \in Mutexes |-> NoThread]
    /\ overflow_checks = "unsettled"
    /\ guard = [t \in Threads |-> None]
    /\ pc = [t \in Threads |-> "idle"]
    /\ ret = NoRet
    /\ call = [t \in Threads |-> "none"]
    /\ spanLog = <<>>
    /\ calls = 0
    /\ exporter = [format |-> "Json", config |-> DefaultConfig]
    /\ spans = <<>>
    /\ network = <<>>

StatsNext == \E n \in CallerHistNames : GetHistogramStatsReturns(n)

StatsSpec == StatsInit /\ [][StatsNext]_vars

\* The element at 0-based index k of the samples in ascending order, said
\* without sorting: the sample x with at most k samples below it and more
\* than k samples not above it.
ElementAt(samples, k) ==
    CHOOSE x \in {samples[i] : i \in 1..Len(samples)} :
        /\ Cardinality({i \in 1..Len(samples) : samples[i] < x}) <= k
        /\ Cardinality({i \in 1..Len(samples) : samples[i] <= x}) > k

\* floor(count * 0.99), in integers.
Floor99(count) == CHOOSE k \in 0..count : 100 * k <= 99 * count /\ 99 * count < 100 * (k + 1)

Maximum(samples) ==
    CHOOSE x \in {samples[i] : i \in 1..Len(samples)} :
        \A i \in 1..Len(samples) : samples[i] <= x

\* What get_histogram_stats gives for `samples` when it returns in this step.
PercentilesSelected(samples) ==
    /\ ret'.value # None
    /\ ret'.value[1].p50 = ElementAt(samples, Len(samples) \div 2)
    /\ ret'.value[1].p99 = ElementAt(samples, Floor99(Len(samples)))
    /\ Len(samples) = 5 => ret'.value[1].p99 = Maximum(samples)

\* C15: percentile selection. For every non-empty sample sequence of length
\* count, get_histogram_stats returns p50 equal to the element at index
\* floor(count/2) and p99 equal to the element at index floor(count*0.99) of
\* the samples sorted ascending; for 5 samples p99 is the maximum.
C15_PercentileSelection ==
    [][\A n \in CallerHistNames :
          (GetHistogramStatsReturns(n) /\ SampleCount(histograms, n) > 0) =>
              ret'.outcome = "ok" /\ PercentilesSelected(histograms[n])]_vars

\* The part of C15 that the code keeps: every call that returns on a
\* non-empty sequence has selected these two elements.
PercentilesWhenReturned ==
    [][\A n \in CallerHistNames :
          (/\ GetHistogramStatsReturns(n)
           /\ SampleCount(histograms, n) > 0
           /\ ret'.outcome = "ok") => PercentilesSelected(histograms[n])]_vars

\* Five comparable samples, not all equal: p99 is the maximum and p50 is not.
PercentilesOfFive ==
    /\ ret.op = "get_histogram_stats" /\ ret.outcome = "ok"
    /\ SampleCount(histograms, "latency") = 5
    /\ ret.value[1].p99 = 3
    /\ ret.value[1].p50 = 1

\* A call that creates the counter n in this step.
Increments(n) == Increment(n) \/ \E v \in CollectorAmounts : IncrementBy(n, v)

\* The three reads, on any name.
ReadsCounter == \E n \in CollectorCounterNames : GetCounterReturns(n)
ReadsGauge == \E n \in CollectorGaugeNames : GetGaugeReturns(n)
ReadsHistogram == \E n \in CollectorHistNames : GetHistogramStatsReturns(n)

\* C16: get_counter on a name that was never incremented returns 0 and is a
\* pure read. No counter exists at the start and only an increment of n
\* creates the counter n, so a name never incremented is absent; a get_counter
\* that returns on an absent name returns 0; and get_counter, get_gauge and
\* get_histogram_stats leave the three mappings, and with them the counts a
\* snapshot reports, as they were: they register nothing.
C16_ReadsRegisterNothing ==
    /\ counters = EmptyMap
    /\ [][/\ \A n \in CollectorCounterNames :
               /\ (n \in DOMAIN counters' /\ n \notin DOMAIN counters) => Increments(n)
               /\ (/\ GetCounterReturns(n)
                   /\ ret'.outcome = "ok"
                   /\ n \notin DOMAIN counters) => ret'.value = 0
          /\ \A n \in CollectorGaugeNames :
               (/\ GetGaugeReturns(n)
                /\ ret'.outcome = "ok"
                /\ n \notin DOMAIN gauges) => ret'.value = None
          /\ \A n \in CollectorHistNames :
               (GetHistogramStatsReturns(n) /\ n \notin DOMAIN histograms) =>
                   ret'.outcome = "panic" \/ ret'.value = None
          /\ (ReadsCounter \/ ReadsGauge \/ ReadsHistogram) =>
               /\ counters' = counters
               /\ gauges' = gauges
               /\ histograms' = histograms
               /\ TelemetrySnapshot' = TelemetrySnapshot]_vars

\* get_counter has returned 0 for a name that is not a counter, in a
\* collector whose only counter is another name, incremented once.
C16_Witness ==
    /\ ret.op = "get_counter" /\ ret.outcome = "ok" /\ ret.value = 0
    /\ Cardinality(DOMAIN counters) = 1
    /\ \A n \in DOMAIN counters : counters[n] = 1
    /\ TelemetrySnapshot.counter_count = 1

\* ================================================================ Exporter
\* exporter.rs. The exporter shares nothing with the telemetry core: export
\* is called on a slice of SpanRecords that its caller owns.

\* ---------------------------------------------------------------- JSON
\* serde_json documents are kept as trees. A string is kept as the token that
\* is written: quoted, with the quote, the backslash and the line feed
\* escaped. The white space between tokens is not kept, so to_string and
\* to_string_pretty give the same tree.
RECURSIVE Escape(_)
Escape(s) ==
    IF s = "" THEN ""
    ELSE LET c == SubSeq(s, 1, 1)
             rest == Escape(SubSeq(s, 2, Len(s)))
         IN  IF c = "\"" THEN "\\\"" \o rest
             ELSE IF c = "\\" THEN "\\\\" \o rest
             ELSE IF c = "\n" THEN "\\n" \o rest
             ELSE c \o rest

JsonString(s) == [type |-> "string", token |-> "\"" \o Escape(s) \o "\""]
JsonNumber(n) == [type |-> "number", number |-> n]
JsonNull == [type |-> "null"]
JsonArray(items) == [type |-> "array", items |-> items]
\* An object is the sequence of its members <<key, value>>, in the order
\* they are written.
JsonObject(members) == [type |-> "object", members |-> members]

\* ---------------------------------------------------------- ExportedSpan
\* An ExportedSpan that gathers its attributes in a map from key to value
\* on the way, so that of the pairs with one key the last is kept. The
\* source clones the vector.
RECURSIVE LastPerKey(_)
LastPerKey(attributes) ==
    IF attributes = <<>> THEN <<>>
    ELSE LET rest == LastPerKey(Tail(attributes))
         IN  IF \E i \in 1..Len(rest) : rest[i][1] = Head(attributes)[1]
             THEN rest
             ELSE <<Head(attributes)>> \o rest

ExportedSpanFromMap(record) ==
    [name |-> record.name,
     service |-> record.service,
     operation |-> OperationString(record.operation),
     duration_ms |-> record.duration,
     status |-> StatusString(record.status),
     attributes |-> LastPerKey(record.attributes)]

\* impl From<&SpanRecord> for ExportedSpan (exporter.rs 33-48). A duration
\* is a number of milliseconds here, so as_secs_f64() * 1000.0 is that number.
ExportedSpanFrom(record) ==
    [name |-> record.name,
     service |-> record.service,
     operation |-> OperationString(record.operation),
     duration_ms |-> record.duration,
     status |-> StatusString(record.status),
     attributes |-> record.attributes]

\* Vec<(String, String)> under Serialize: an array of two-element arrays.
SerializeAttributes(attributes) ==
    JsonArray([i \in 1..Len(attributes) |->
                  JsonArray(<<JsonString(attributes[i][1]),
                              JsonString(attributes[i][2])>>)])

\* #[derive(Serialize)] on ExportedSpan (exporter.rs 23-31): an object with
\* the fields in declaration order; Option is null or the value.
SerializeExportedSpan(s) ==
    JsonObject(<<
        <<"name", JsonString(s.name)>>,
        <<"service", JsonString(s.service)>>,
        <<"operation", JsonString(s.operation)>>,
        <<"duration_ms", IF s.duration_ms = None THEN JsonNull
                         ELSE JsonNumber(s.duration_ms[1])>>,
        <<"status", JsonString(s.status)>>,
        <<"attributes", SerializeAttributes(s.attributes)>> >>)

\* serde_json::to_string_pretty(&exported) (exporter.rs 61)
SerializeExported(exported) ==
    JsonArray([i \in 1..Len(exported) |-> SerializeExportedSpan(exported[i])])

\* s.status.starts_with("error") (exporter.rs 88)
StartsWith(s, prefix) ==
    Len(s) >= Len(prefix) /\ SubSeq(s, 1, Len(prefix)) = prefix

\* A status code taken from the tag of the status string: 2 only for "error".
OtlpStatusCodeExact(status) == IF status = "error" THEN 2 ELSE 1

\* "code": if s.status.starts_with("error") { 2 } else { 1 } (exporter.rs 88)
OtlpStatusCode(status) == IF StartsWith(status, "error") THEN 2 ELSE 1

\* Clock and package facts the document carries.
NanosPerMs == 1000000
PkgVersion == "CARGO_PKG_VERSION"

\* One entry of "spans" (exporter.rs 78-92)
OtlpSpan(s) ==
    JsonObject(<<
        <<"name", JsonString(s.name)>>,
        <<"kind", JsonNumber(1)>>,
        <<"attributes",
          JsonArray([i \in 1..Len(s.attributes) |->
              JsonObject(<<
                  <<"key", JsonString(s.attributes[i][1])>>,
                  <<"value", JsonObject(<< <<"stringValue",
                                            JsonString(s.attributes[i][2])>> >>)>> >>)])>>,
        <<"status", JsonObject(<<
              <<"code", JsonNumber(OtlpStatusCode(s.status))>>,
              <<"message", JsonString(s.status)>> >>)>>,
        <<"durationNanos", JsonNumber(IF s.duration_ms = None THEN 0
                                      ELSE s.duration_ms[1] * NanosPerMs)>> >>)

\* The resourceSpans document (exporter.rs 64-96)
OtlpDocument(config, exported) ==
    JsonObject(<< <<"resourceSpans", JsonArray(<<
        JsonObject(<<
            <<"resource", JsonObject(<< <<"attributes", JsonArray(<<
                JsonObject(<<
                    <<"key", JsonString("service.name")>>,
                    <<"value", JsonObject(<< <<"stringValue",
                                              JsonString(config.service_name)>> >>)>> >>) >>)>> >>)>>,
            <<"scopeSpans", JsonArray(<<
                JsonObject(<<
                    <<"scope", JsonObject(<<
                        <<"name", JsonString("sigma-telemetry")>>,
                        <<"version", JsonString(PkgVersion)>> >>)>>,
                    <<"spans", JsonArray([i \in 1..Len(exported) |->
                                             OtlpSpan(exported[i])])>> >>) >>)>> >>) >>)>> >>)

\* ------------------------------------------------------------------ export
\* Result<String, TelemetryError>: the String is kept as the document it
\* holds, or as the message.
Ok(payload) == [variant |-> "Ok", payload |-> payload]
ExportError(message) == [variant |-> "Err", payload |-> message]

\* What the HTTP stack does with one export call: Client::builder().build()
\* fails, or the client is built and send() gives a response with a status
\* and a body, or send() fails.
BuildError(cause) == [kind |-> "build_error", status |-> 0, text |-> cause]
Response(status, body) == [kind |-> "response", status |-> status, text |-> body]
SendError(cause) == [kind |-> "send_error", status |-> 0, text |-> cause]
Outcomes ==
    {BuildError("builder error"),
     Response(200, ""), Response(204, ""),
     Response(404, "no such path"), Response(503, ""),
     SendError("connection refused"), SendError("operation timed out")}

\* StatusCode::is_success (exporter.rs 114)
is_success(status) == 200 <= status /\ status <= 299

\* Display of StatusCode: the code and its canonical reason (exporter.rs 121)
StatusCodeString(status) ==
    ToString(status) \o " " \o
        CASE status = 200 -> "OK"
          [] status = 204 -> "No Content"
          [] status = 404 -> "Not Found"
          [] status = 503 -> "Service Unavailable"
          [] OTHER -> "<unknown status code>"

\* client.post(&endpoint).header("Content-Type", "application/json")
\*     .body(body) (exporter.rs 107-110)
PostRequest(endpoint, body) ==
    [method |-> "POST", url |-> endpoint,
     content_type |-> "application/json", body |-> body]

\* Calls of export in a run.
MaxExports == 2

\* An export that sends again when send() fails, and reports the second
\* failure. The source sends once.
ExportRetrying(outcome) ==
    /\ Len(network) < MaxExports
    /\ LET exported == [i \in 1..Len(spans) |-> ExportedSpanFrom(spans[i])]
           endpoint == exporter.config.otlp_endpoint \o "/v1/traces"
           request == PostRequest(endpoint, OtlpDocument(exporter.config, exported))
       IN  IF exporter.format \in {"Json", "Stdout"}
           THEN /\ Returns("export", Ok(SerializeExported(exported)))
                /\ UNCHANGED network
           ELSE IF outcome.kind = "build_error"
           THEN /\ Returns("export", ExportError(outcome.text))
                /\ UNCHANGED network
           ELSE IF outcome.kind = "send_error"
           THEN /\ network' = network \o <<request, request>>
                /\ Returns("export", ExportError(
                       "Failed to reach OTLP endpoint " \o endpoint \o ": " \o outcome.text))
           ELSE /\ network' = Append(network, request)
                /\ IF is_success(outcome.status)
                   THEN Returns("export", Ok(
                            "Exported " \o ToString(Len(spans)) \o " spans to " \o endpoint))
                   ELSE Returns("export", ExportError(
                            "OTLP endpoint returned " \o StatusCodeString(outcome.status)
                                \o ": " \o outcome.text))
    /\ UNCHANGED <<counters, histograms, gauges, active_spans, poisoned, holder,
                   overflow_checks, guard, pc, call, spanLog, calls, exporter, spans>>

\* Exporter::export (exporter.rs 57-131). spans is borrowed immutably. The
\* body is a serde_json::Value with string keys written to a String, which
\* serde_json::to_string never refuses (exporter.rs 98-99).
Export(outcome) ==
    /\ Len(network) < MaxExports
    /\ LET exported == [i \in 1..Len(spans) |-> ExportedSpanFrom(spans[i])]
           endpoint == exporter.config.otlp_endpoint \o "/v1/traces"
           request == PostRequest(endpoint, OtlpDocument(exporter.config, exported))
       IN  IF exporter.format \in {"Json", "Stdout"}
           THEN /\ Returns("export", Ok(SerializeExported(exported)))
                /\ UNCHANGED network
           ELSE IF outcome.kind = "build_error"
           THEN /\ Returns("export", ExportError(outcome.text))
                /\ UNCHANGED network
           ELSE /\ network' = Append(network, request)
                /\ IF outcome.kind = "send_error"
                   THEN Returns("export", ExportError(
                            "Failed to reach OTLP endpoint " \o endpoint \o ": " \o outcome.text))
                   ELSE IF is_success(outcome.status)
                   THEN Returns("export", Ok(
                            "Exported " \o ToString(Len(spans)) \o " spans to " \o endpoint))
                   ELSE Returns("export", ExportError(
                            "OTLP endpoint returned " \o StatusCodeString(outcome.status)
                                \o ": " \o outcome.text))
    /\ UNCHANGED <<counters, histograms, gauges, active_spans, poisoned, holder,
                   overflow_checks, guard, pc, call, spanLog, calls, exporter, spans>>

\* The span records export is called on: SpanRecord's fields are public, so
\* a caller builds any record, finished or not.
SpanRecordOf(operation, status, duration, attributes) ==
    [NewRecord(0, "op", operation) EXCEPT
        !.status = status, !.duration = duration, !.attributes = attributes]

ExportRecords ==
    {SpanRecordOf(Op("Inference"), StatusOk, Some(5),
                  <<<<"model", "bitnet">>, <<"tokens", "42">>>>),
     SpanRecordOf(Op("TokenGeneration"), StatusError("bad \"token\"\nline 2"), Some(5),
                  <<<<"path", "C:\\models">>>>),
     SpanRecordOf(Op("KvCacheOp"), StatusUnset, None, <<>>),
     SpanRecordOf(Op("SpeculativeDraft"), StatusError(""), Some(0),
                  <<<<"k", "v1">>, <<"k", "v2">>, <<"k", "v1">>>>),
     SpanRecordOf(Custom("foo"), StatusOk, None, <<<<"k", "v">>, <<"k", "v">>>>)}

MaxExported == 2

Formats == {"Otlp", "Json", "Stdout"}
Configs == {DefaultConfig, [DefaultConfig EXCEPT !.otlp_endpoint = "http://collector:4318"]}

\* An exporter of any format, about to be called on any slice.
ExportInit ==
    /\ counters = EmptyMap
    /\ histograms = EmptyMap
    /\ gauges = EmptyMap
    /\ active_spans = <<>>
    /\ poisoned = [m \in Mutexes |-> FALSE]
    /\ holder = [m \in Mutexes |-> NoThread]
    /\ overflow_checks = "unsettled"
    /\ guard = [t \in Threads |-> None]
    /\ pc = [t \in Threads |-> "idle"]
    /\ ret = NoRet
    /\ call = [t \in Threads |-> "none"]
    /\ spanLog = <<>>
    /\ calls = 0
    /\ exporter \in {[format |-> f, config |-> c] : f \in Formats, c \in Configs}
    /\ spans \in SeqsUpTo(ExportRecords, MaxExported)
    /\ network = <<>>

ExportNext == \E outcome \in Outcomes : Export(outcome)

ExportSpec == ExportInit /\ [][ExportNext]_vars

\* ------------------------------------------------------- export, claims
\* sub occurs in s.
Contains(s, sub) ==
    \E i \in 1..(Len(s) - Len(sub) + 1) : SubSeq(s, i, i + Len(sub) - 1) = sub

\* The requests this step sends.
Sent == SubSeq(network', Len(network) + 1, Len(network'))
TracesEndpoint == exporter.config.otlp_endpoint \o "/v1/traces"

\* This step sends one request, a POST to <otlp_endpoint>/v1/traces.
SendsOnePost ==
    /\ IsPrefix(network, network')
    /\ Len(Sent) = 1
    /\ Sent[1].method = "POST"
    /\ Sent[1].url = TracesEndpoint

SendsNothing == network' = network

\* The result of the call that ends in this step, for what came back from
\* the one request: a 2xx response, another response, or no response.
OutcomeMapped(outcome) ==
    /\ ret'.op = "export" /\ ret'.outcome = "ok"
    /\ (outcome.kind = "response" /\ is_success(outcome.status)) =>
           /\ ret'.value.variant = "Ok"
           /\ Contains(ret'.value.payload, ToString(Len(spans)) \o " spans")
           /\ Contains(ret'.value.payload, TracesEndpoint)
    /\ (outcome.kind = "response" /\ ~is_success(outcome.status)) =>
           /\ ret'.value.variant = "Err"
           /\ Contains(ret'.value.payload, ToString(outcome.status))
           /\ Contains(ret'.value.payload, outcome.text)
    /\ outcome.kind = "send_error" =>
           /\ ret'.value.variant = "Err"
           /\ Contains(ret'.value.payload, TracesEndpoint)
           /\ Contains(ret'.value.payload, outcome.text)

RECURSIVE Unescape(_)
Unescape(s) ==
    IF s = "" THEN ""
    ELSE IF SubSeq(s, 1, 1) = "\\"
         THEN (IF SubSeq(s, 2, 2) = "n" THEN "\n" ELSE SubSeq(s, 2, 2))
                  \o Unescape(SubSeq(s, 3, Len(s)))
         ELSE SubSeq(s, 1, 1) \o Unescape(SubSeq(s, 2, Len(s)))

TextOf(json) == Unescape(SubSeq(json.token, 2, Len(json.token) - 1))

\* The value of member `key` of an object; of the last one when the key is
\* written more than once.
Member(object, key) ==
    LET at == {i \in 1..Len(object.members) : object.members[i][1] = key}
    IN  object.members[CHOOSE i \in at : \A j \in at : j <= i][2]

\* resourceSpans[0].scopeSpans[0].spans of an OTLP document.
OtlpSpansOf(document) ==
    Member(Member(Member(document, "resourceSpans").items[1],
                  "scopeSpans").items[1], "spans").items

StatusCodeOf(entry) == Member(Member(entry, "status"), "code").number
StatusMessageOf(entry) == TextOf(Member(Member(entry, "status"), "message"))

\* C18: in the OTLP document each span's status code is 2 if its rendered
\* status string starts with "error" and 1 otherwise; so the code is 2
\* exactly for the spans whose status is Error(message), for every message,
\* the empty one included, and 1 for the spans with status Ok or Unset.
C18_OtlpStatusCode ==
    \A r \in 1..Len(network) :
        LET entries == OtlpSpansOf(network[r].body)
        IN  /\ Len(entries) = Len(spans)
            /\ \A i \in 1..Len(spans) :
                   LET code == StatusCodeOf(entries[i])
                       message == StatusMessageOf(entries[i])
                   IN  /\ message = StatusString(spans[i].status)
                       /\ code = IF Len(message) >= 5 /\ SubSeq(message, 1, 5) = "error"
                                 THEN 2 ELSE 1
                       /\ code = IF spans[i].status.tag = "Error" THEN 2 ELSE 1

\* A document has been posted for a span with status Error("") next to a
\* span with status Unset: the codes are 2 and 1.
C18_Witness ==
    /\ Len(network) >= 1
    /\ Len(spans) = 2
    /\ spans[1].status = StatusError("")
    /\ spans[2].status = StatusUnset
    /\ StatusCodeOf(OtlpSpansOf(network[1].body)[1]) = 2
    /\ StatusMessageOf(OtlpSpansOf(network[1].body)[1]) = "error: "
    /\ StatusCodeOf(OtlpSpansOf(network[1].body)[2]) = 1

\* The records read back from a Json export: one per element of the array,
\* with the operation, the status and the attribute pairs it carries.
AttributesOf(item) ==
    LET pairs == Member(item, "attributes").items
    IN  [k \in 1..Len(pairs) |-> <<TextOf(pairs[k].items[1]), TextOf(pairs[k].items[2])>>]

RecordsReadBack(document) ==
    [i \in 1..Len(document.items) |->
        [operation |-> TextOf(Member(document.items[i], "operation")),
         status |-> TextOf(Member(document.items[i], "status")),
         attributes |-> AttributesOf(document.items[i])]]

\* The status string the specification gives: "ok", "unset" or
\* "error: <message>".
RenderedStatus(status) ==
    IF status.tag = "Ok" THEN "ok"
    ELSE IF status.tag = "Unset" THEN "unset"
    ELSE "error: " \o status.msg

\* C19: JSON export round-trips. For every input sequence of N span records,
\* export in Json or Stdout format yields an array of exactly N records in
\* input order, where record i carries the rendered operation string, the
\* rendered status string and the attribute pairs of input span i verbatim
\* (same order, duplicates kept); the input spans are not modified.
C19_JsonRoundTrip ==
    [][(exporter.format \in {"Json", "Stdout"} /\ ret'.op = "export") =>
          /\ spans' = spans
          /\ ret'.outcome = "ok"
          /\ ret'.value.variant = "Ok"
          /\ ret'.value.payload.type = "array"
          /\ RecordsReadBack(ret'.value.payload) =
                 [i \in 1..Len(spans) |->
                     [operation |-> OperationString(spans[i].operation),
                      status |-> RenderedStatus(spans[i].status),
                      attributes |-> spans[i].attributes]]]_vars

\* A Json export of two spans has returned: the first with three pairs under
\* one key, two of them equal, the second with a message that needs escapes.
C19_Witness ==
    /\ ret.op = "export" /\ exporter.format = "Json"
    /\ Len(spans) = 2
    /\ spans[1].attributes = <<<<"k", "v1">>, <<"k", "v2">>, <<"k", "v1">>>>
    /\ spans[2].status = StatusError("bad \"token\"\nline 2")
    /\ Len(ret.value.payload.items) = 2
    /\ Len(AttributesOf(ret.value.payload.items[1])) = 3
    /\ TextOf(Member(ret.value.payload.items[2], "status")) = "error: bad \"token\"\nline 2"

\* ------------------------------------------------- rendering of operations
\* Every operation kind, rendered by an export of a slice that holds it once
\* or twice.
Operations ==
    {Op(kind) : kind \in WellKnownKinds} \cup {Custom("foo"), Custom(""), Custom("a b.c")}

OperationSlices ==
    {<<>>} \cup UNION {{<<SpanRecordOf(op, StatusOk, Some(5), <<>>)>>,
                        <<SpanRecordOf(op, StatusOk, Some(5), <<>>),
                          SpanRecordOf(op, StatusUnset, None, <<>>)>>} : op \in Operations}

RenderInit ==
    /\ counters = EmptyMap
    /\ histograms = EmptyMap
    /\ gauges = EmptyMap
    /\ active_spans = <<>>
    /\ poisoned = [m \in Mutexes |-> FALSE]
    /\ holder = [m \in Mutexes |-> NoThread]
    /\ overflow_checks = "unsettled"
    /\ guard = [t \in Threads |-> None]
    /\ pc = [t \in Threads |-> "idle"]
    /\ ret = NoRet
    /\ call = [t \in Threads |-> "none"]
    /\ spanLog = <<>>
    /\ calls = 0
    /\ exporter \in {[format |-> f, config |-> c] : f \in Formats, c \in Configs}
    /\ spans \in OperationSlices
    /\ network = <<>>

RenderNext == \E outcome \in Outcomes : Export(outcome)

RenderSpec == RenderInit /\ [][RenderNext]_vars

\* The fixed dotted strings of the ten well-known operations.
FixedString ==
    [ModelLoad |-> "model.load",
     Inference |-> "inference",
     TokenGeneration |-> "token.generation",
     KvCacheOp |-> "kv_cache.op",
     SpeculativeDraft |-> "speculative.draft",
     SpeculativeVerify |-> "speculative.verify",
     EmbeddingEncode |-> "embedding.encode",
     AgentExecute |-> "agent.execute",
     VaultStore |-> "vault.store",
     VaultRetrieve |-> "vault.retrieve"]

\* The operation string of record i of a Json export.
OperationOf(document, i) == TextOf(Member(document.items[i], "operation"))

\* C20: operation-kind rendering is a total, deterministic function. Every
\* operation an exported span carries is rendered; each of the ten well-known
\* operations renders to its fixed dotted string, Custom(label) renders to
\* "custom." followed by label, and two spans with the same operation carry
\* the same string.
C20_OperationRendering ==
    (ret.op = "export" /\ exporter.format \in {"Json", "Stdout"}) =>
        /\ ret.value.variant = "Ok"
        /\ Len(ret.value.payload.items) = Len(spans)
        /\ DOMAIN FixedString = WellKnownKinds
        /\ \A i \in 1..Len(spans) :
               LET op == spans[i].operation
                   rendered == OperationOf(ret.value.payload, i)
               IN  /\ op.kind \in WellKnownKinds => rendered = FixedString[op.kind]
                   /\ op.kind = "Custom" => rendered = "custom." \o op.label
                   /\ op.kind \in WellKnownKinds \cup {"Custom"}
        /\ \A i, j \in 1..Len(spans) :
               spans[i].operation = spans[j].operation =>
                   OperationOf(ret.value.payload, i) = OperationOf(ret.value.payload, j)

\* Two spans of operation Custom("foo") have been exported: both carry
\* "custom.foo".
C20_Witness ==
    /\ ret.op = "export" /\ exporter.format = "Stdout"
    /\ Len(spans) = 2
    /\ spans[1].operation = Custom("foo")
    /\ spans[2].operation = Custom("foo")
    /\ OperationOf(ret.value.payload, 1) = "custom.foo"
    /\ OperationOf(ret.value.payload, 2) = "custom.foo"

\* ------------------------------------------------------- spans and guards
\* The span lifecycle alone: guards are started, given attributes and
\* finalized by two threads, and record_span runs step by step. The pairs
\* share a key, so the order of two calls shows in the record.
SpanAttrPairs == {<<"model", "bitnet">>, <<"model", "llama">>}

SpanNext ==
    \/ \E t \in Threads, n \in SpanNames, o \in SpanOps : StartSpan(t, n, o)
    \/ \E t \in Threads, kv \in SpanAttrPairs : SetAttribute(t, kv)
    \/ \E t \in Threads, e \in ElapsedMs : SetOk(t, e)
    \/ \E t \in Threads, m \in ErrorMsgs, e \in ElapsedMs : SetError(t, m, e)
    \/ \E t \in Threads, e \in ElapsedMs : Drop(t, e)
    \/ \E t \in Threads : RecordSpanErrors(t)
    \/ \E t \in Threads : RecordSpanHistogram(t)
    \/ \E t \in Threads : RecordSpanPush(t)

SpanSpec == Init /\ [][SpanNext]_vars

\* set_attribute(kv) is called on the guard of t in this step.
SetsAttribute(t) == \E kv \in SpanAttrPairs : SetAttribute(t, kv)

\* C21: attributes are set only while Active and kept in order. A guard
\* starts with no attribute; each set_attribute call on it appends its pair,
\* whatever the keys already there, and is made only before finalization; no
\* other step changes the attributes of a guard; the record that
\* finalization appends to the buffer carries the attributes of its guard,
\* which is gone from then on; and a record in the buffer never changes.
\* So the attributes of a buffered span are the set_attribute calls made on
\* its guard, in call order, duplicates kept.
C21_AttributesInCallOrder ==
    [][/\ \A t \in Threads :
            /\ (guard[t] = None /\ guard'[t] # None) =>
                   guard'[t][1].attributes = <<>>
            /\ \A kv \in SpanAttrPairs :
                   SetAttribute(t, kv) =>
                       /\ ~Finalizing(t)
                       /\ guard'[t][1].attributes = Append(guard[t][1].attributes, kv)
            /\ (guard[t] # None /\ guard'[t] # None /\ ~SetsAttribute(t)) =>
                   guard'[t][1].attributes = guard[t][1].attributes
            /\ (guard[t] # None /\ guard'[t] # None) =>
                   guard'[t][1].id = guard[t][1].id
       /\ IsPrefix(active_spans, active_spans')
       /\ Len(active_spans') <= Len(active_spans) + 1
       /\ Len(active_spans') = Len(active_spans) + 1 =>
              \E t \in Threads :
                  /\ Finalizing(t)
                  /\ guard'[t] = None
                  /\ active_spans'[Len(active_spans')].id = guard[t][1].id
                  /\ active_spans'[Len(active_spans')].attributes =
                         guard[t][1].attributes]_vars

\* A span finalized with set_error is buffered with the two pairs of its
\* two set_attribute calls, "llama" before "bitnet", both under "model".
C21_Witness ==
    \E i \in 1..Len(active_spans) :
        /\ active_spans[i].attributes = <<<<"model", "llama">>, <<"model", "bitnet">>>>
        /\ IsError(active_spans[i].status)
        /\ spanLog[active_spans[i].id] = "ended"

\* ------------------------------------------------------------- deadlock
\* Thread t is inside a call that takes its locks in more than one step:
\* record_span or snapshot. The other calls are one critical section.
InCall(t) == pc[t] # "idle"

\* The next step of the call thread t is inside.
Continues(t) ==
    \/ RecordSpanErrors(t)
    \/ RecordSpanHistogram(t)
    \/ RecordSpanPush(t)
    \/ \E i \in 2..Len(SnapshotOrder) : SnapshotLock(t, i)

\* The mutexes thread t holds.
Held(t) == {m \in Mutexes : holder[m] = t}

\* Locks are held by snapshot only, and in its order: a thread at the i-th
\* lock of snapshot holds the i - 1 before it; every other thread holds
\* none between its steps.
LockOrder ==
    \A t \in Threads :
        IF \E i \in 1..Len(SnapshotOrder) : pc[t] = SnapshotPc(i)
        THEN \A i \in 1..Len(SnapshotOrder) :
                 pc[t] = SnapshotPc(i) => Held(t) = HeldBefore(i)
        ELSE Held(t) = {}

\* A thread inside a call can take its next step, or waits for a mutex whose
\* holder can.
NoDeadlock ==
    \A t \in Threads :
        InCall(t) =>
            \/ ENABLED Continues(t)
            \/ \E u \in Threads \ {t} :
                   /\ Held(u) # {}
                   /\ ENABLED Continues(u)

\* C22: deadlock freedom. With threads calling snapshot, the aggregator
\* operations and span finalization in any interleaving, snapshot holds its
\* locks in the one fixed order and every other operation holds at most one
\* lock; no reachable state is a deadlock; and under fair scheduling every
\* call a thread is inside comes to its end, the thread being free again:
\* no call waits for ever. (A call that meets a poisoned mutex ends by
\* unwinding; it does not wait either.)
C22_DeadlockFree ==
    /\ [](LockOrder /\ NoDeadlock)
    /\ \A t \in Threads : InCall(t) ~> ~InCall(t)

\* One thread is inside snapshot holding the span buffer and the counters
\* while the other, inside record_span, waits for the counters.
C22_Witness ==
    \E t, u \in Threads :
        /\ pc[t] = SnapshotPc(3)
        /\ Held(t) = {"active_spans", "counters"}
        /\ pc[u] = "rs_errors"
        /\ ~ENABLED Continues(u)

\* ------------------------------------------------- counters and the buffer
\* The buffered spans with an Error status.
BufferedErrors == {i \in 1..Len(active_spans) : active_spans[i].status.tag = "Error"}

\* C23: counter/buffer ordering. spans.total and spans.errors being written
\* by span finalization only, in every reachable state the span buffer
\* holds at most spans.total records, at most spans.errors records with an
\* Error status, and spans.errors is at most spans.total: a span is counted
\* before it is buffered, never the reverse.
C23_CountedBeforeBuffered ==
    /\ {SpansTotal, SpansErrors} \cap CounterNames = {}
    /\ Len(active_spans) <= Total(counters)
    /\ Cardinality(BufferedErrors) <= Errors(counters)
    /\ Errors(counters) <= Total(counters)

\* A span finalized with set_error has been counted in spans.total and in
\* spans.errors and waits for the buffer, which holds one span already: two
\* counted, one of them an error, one buffered.
C23_Witness ==
    /\ \E t \in Threads : pc[t] = "rs_push" /\ guard[t][1].status.tag = "Error"
    /\ Total(counters) = 2
    /\ Errors(counters) = 1
    /\ Len(active_spans) = 1
    /\ BufferedErrors = {}

\* C24: snapshot consistency. Every TelemetrySnapshot that snapshot()
\* returns, whatever span finalizations run beside it, has counter_count >= 1
\* and histogram_count >= 1 if it has span_count >= 1; for in every state
\* each buffered span has its spans.total counter and, having a duration,
\* its span.<operation>.duration_ms histogram: a span is not visible before
\* the entries its finalization created.
C24_SnapshotConsistency ==
    /\ \A i \in 1..Len(active_spans) :
           /\ SpansTotal \in DOMAIN counters
           /\ active_spans[i].duration # None
           /\ DurationKey(active_spans[i].operation) \in DOMAIN histograms
    /\ (ret.op = "snapshot" /\ ret.outcome = "ok") =>
           (ret.value[1].span_count >= 1 =>
                /\ ret.value[1].counter_count >= 1
                /\ ret.value[1].histogram_count >= 1)

\* A snapshot has returned one span, one counter and one histogram while the
\* other thread is inside record_span with its span counted and not yet
\* buffered.
C24_Witness ==
    /\ ret.op = "snapshot" /\ ret.outcome = "ok"
    /\ ret.value[1].span_count = 1
    /\ ret.value[1].counter_count = 1
    /\ ret.value[1].histogram_count = 1
    /\ Total(counters) = 2
    /\ \E t \in Threads : Finalizing(t)

\* ------------------------------------------------- percentile indices
\* Sample counts the index arithmetic is tried on.
MaxCount == 300

\* a <= b on f64: false as soon as one side is NaN.
LeqF64(a, b) == ~IsNaN(a) /\ ~IsNaN(b) /\ a <= b

\* floor(count/2) <= floor(count*0.99) <= count - 1, for the indices the
\* code computes.
IndicesInRange ==
    \A count \in 1..MaxCount :
        /\ 0 <= P50Index(count)
        /\ P50Index(count) <= P99Index(count)
        /\ P99Index(count) <= count - 1
        /\ P99Index(count) = Floor99(count)

\* min <= p50 <= p99 <= max of samples, for the statistics `stats`.
OrderedWithin(samples, stats) ==
    /\ \E i \in 1..Len(samples) : LeqF64(samples[i], stats.p50)
    /\ LeqF64(stats.p50, stats.p99)
    /\ \E i \in 1..Len(samples) : LeqF64(stats.p99, samples[i])
    /\ \E i \in 1..Len(samples) : stats.p50 = samples[i]
    /\ \E i \in 1..Len(samples) : stats.p99 = samples[i]

\* C25: percentile indices are always in range and ordered. For every sample
\* count >= 1, floor(count/2) <= floor(count*0.99) <= count - 1, so
\* get_histogram_stats never indexes outside the sorted samples, and it
\* always returns, with min <= p50 <= p99 <= max of the recorded samples.
C25_PercentilesInRange ==
    /\ IndicesInRange
    /\ ret.op = "get_histogram_stats" =>
           /\ ret.outcome = "ok"
           /\ ret.value # None =>
                  OrderedWithin(histograms["latency"], ret.value[1])

\* The part of C25 that the code keeps: the indices are in range and
\* ordered, and a call that returns on samples that are all numbers returns
\* min <= p50 <= p99 <= max.
PercentilesInRangeOfNumbers ==
    /\ IndicesInRange
    /\ (ret.op = "get_histogram_stats" /\ ret.outcome = "ok" /\ ret.value # None) =>
           LET samples == histograms["latency"]
           IN  (\A i \in 1..Len(samples) : ~IsNaN(samples[i])) =>
                   OrderedWithin(samples, ret.value[1])

====
